---------------------------- MODULE Spec2Model ----------------------------
(***************************************************************************)
(* Route segments of next-core's next_app module: the segment grammar      *)
(* (PageSegment::parse), the renderings (Display), the page container      *)
(* (AppPage: push, push_str, parse) and the derived path container         *)
(* (AppPath::from).                                                        *)
(*                                                                         *)
(* A Rust String is modelled as a sequence of one-character strings, so    *)
(* that prefixes, suffixes, splitting and concatenation are computed       *)
(* character by character as the code does.  A Result is a record with an  *)
(* err field: "none" for Ok, otherwise the kind of the error that bail!    *)
(* raised.                                                                 *)
(***************************************************************************)
EXTENDS Integers, Sequences, FiniteSets, TLC

VARIABLES
    page,      \* AppPage.0 : the Vec<PageSegment> of the container at hand
    before,    \* the container as it was when the last call was entered
    call,      \* the last call on the container: operation, argument, Result
    token,     \* the &str handed to PageSegment::parse
    parsed,    \* the Result<PageSegment> it returned
    path,      \* the &str handed to AppPage::parse
    derived,   \* the AppPath.0 built by AppPath::from
    pc         \* position of the parse / mark / derive pipeline

vars == <<page, before, call, token, parsed, path, derived, pc>>

-----------------------------------------------------------------------------
(* Bounds of the model. *)

\* longest container built by push / push_str, and drawn for AppPath::from
MaxLen == 3
\* longest free middle part of a token handed to PageSegment::parse
MaxMid == 2
\* most substrings of a path handed to AppPage::parse, after an optional
\* leading separator
MaxPieces == 3

-----------------------------------------------------------------------------
(* Strings. *)

Chars == {"a", "/", "(", ")", "@", "[", "]", "."}

\* str::is_empty
IsEmpty(s) == Len(s) = 0

\* str::contains(char)
Contains(s, c) == \E i \in 1..Len(s) : s[i] = c

None == [some |-> FALSE, rest |-> <<>>]
Some(s) == [some |-> TRUE, rest |-> s]

\* str::strip_prefix
StripPrefix(s, pre) ==
    IF Len(s) >= Len(pre) /\ SubSeq(s, 1, Len(pre)) = pre
    THEN Some(SubSeq(s, Len(pre) + 1, Len(s)))
    ELSE None

\* str::strip_suffix
StripSuffix(s, suf) ==
    IF Len(s) >= Len(suf) /\ SubSeq(s, Len(s) - Len(suf) + 1, Len(s)) = suf
    THEN Some(SubSeq(s, 1, Len(s) - Len(suf)))
    ELSE None

\* segment.strip_prefix(pre).and_then(|s| s.strip_suffix(suf))
StripBoth(s, pre, suf) ==
    LET p == StripPrefix(s, pre)
    IN  IF p.some THEN StripSuffix(p.rest, suf) ELSE None

-----------------------------------------------------------------------------
(* enum PageSegment, enum PageType, enum PathSegment. *)

PageTypes == {"Page", "Route"}

Static(s)           == [kind |-> "Static", name |-> s]
Dynamic(s)          == [kind |-> "Dynamic", name |-> s]
CatchAll(s)         == [kind |-> "CatchAll", name |-> s]
OptionalCatchAll(s) == [kind |-> "OptionalCatchAll", name |-> s]
Group(s)            == [kind |-> "Group", name |-> s]
Parallel(s)         == [kind |-> "Parallel", name |-> s]
PageType(t)         == [kind |-> "PageType", ptype |-> t]

Ok(v)  == [err |-> "none", value |-> v]
Err(e) == [err |-> e, value |-> <<>>]

-----------------------------------------------------------------------------
(* PageSegment::parse. *)

\* mutant: the dynamic form tried before the catch-all forms
PageSegment_parse_DynamicFirst(segment) ==
    IF IsEmpty(segment) THEN Err("EmptySegment")
    ELSE IF Contains(segment, "/") THEN Err("IllegalSlash")
    ELSE LET group    == StripBoth(segment, <<"(">>, <<")">>)
             parallel == StripPrefix(segment, <<"@">>)
             optional == StripBoth(segment, <<"[", "[", ".", ".", ".">>, <<"]", "]">>)
             catchall == StripBoth(segment, <<"[", ".", ".", ".">>, <<"]">>)
             dynamic  == StripBoth(segment, <<"[">>, <<"]">>)
         IN  IF group.some THEN Ok(Group(group.rest))
             ELSE IF parallel.some THEN Ok(Parallel(parallel.rest))
             ELSE IF dynamic.some THEN Ok(Dynamic(dynamic.rest))
             ELSE IF optional.some THEN Ok(OptionalCatchAll(optional.rest))
             ELSE IF catchall.some THEN Ok(CatchAll(catchall.rest))
             ELSE Ok(Static(segment))

PageSegment_parse(segment) ==
    IF IsEmpty(segment) THEN Err("EmptySegment")
    ELSE IF Contains(segment, "/") THEN Err("IllegalSlash")
    ELSE LET group    == StripBoth(segment, <<"(">>, <<")">>)
             parallel == StripPrefix(segment, <<"@">>)
             optional == StripBoth(segment, <<"[", "[", ".", ".", ".">>, <<"]", "]">>)
             catchall == StripBoth(segment, <<"[", ".", ".", ".">>, <<"]">>)
             dynamic  == StripBoth(segment, <<"[">>, <<"]">>)
         IN  IF group.some THEN Ok(Group(group.rest))
             ELSE IF parallel.some THEN Ok(Parallel(parallel.rest))
             ELSE IF optional.some THEN Ok(OptionalCatchAll(optional.rest))
             ELSE IF catchall.some THEN Ok(CatchAll(catchall.rest))
             ELSE IF dynamic.some THEN Ok(Dynamic(dynamic.rest))
             ELSE Ok(Static(segment))

-----------------------------------------------------------------------------
(* Display. *)

\* impl Display for PageType
PageType_fmt(t) ==
    IF t = "Page" THEN <<"p", "a", "g", "e">> ELSE <<"r", "o", "u", "t", "e">>

\* mutant: the optional catch-all closed with one bracket
PageSegment_fmt_OneBracket(seg) ==
    CASE seg.kind = "Static"           -> seg.name
      [] seg.kind = "Dynamic"          -> <<"[">> \o seg.name \o <<"]">>
      [] seg.kind = "CatchAll"         -> <<"[", ".", ".", ".">> \o seg.name \o <<"]">>
      [] seg.kind = "OptionalCatchAll" ->
             <<"[", "[", ".", ".", ".">> \o seg.name \o <<"]">>
      [] seg.kind = "Group"            -> <<"(">> \o seg.name \o <<")">>
      [] seg.kind = "Parallel"         -> <<"@">> \o seg.name
      [] seg.kind = "PageType"         -> PageType_fmt(seg.ptype)

\* impl Display for PageSegment
PageSegment_fmt(seg) ==
    CASE seg.kind = "Static"           -> seg.name
      [] seg.kind = "Dynamic"          -> <<"[">> \o seg.name \o <<"]">>
      [] seg.kind = "CatchAll"         -> <<"[", ".", ".", ".">> \o seg.name \o <<"]">>
      [] seg.kind = "OptionalCatchAll" ->
             <<"[", "[", ".", ".", ".">> \o seg.name \o <<"]", "]">>
      [] seg.kind = "Group"            -> <<"(">> \o seg.name \o <<")">>
      [] seg.kind = "Parallel"         -> <<"@">> \o seg.name
      [] seg.kind = "PageType"         -> PageType_fmt(seg.ptype)


\* impl Display for PathSegment
PathSegment_fmt(seg) ==
    CASE seg.kind = "Static"           -> seg.name
      [] seg.kind = "Dynamic"          -> <<"[">> \o seg.name \o <<"]">>
      [] seg.kind = "CatchAll"         -> <<"[", ".", ".", ".">> \o seg.name \o <<"]">>
      [] seg.kind = "OptionalCatchAll" ->
             <<"[", "[", ".", ".", ".">> \o seg.name \o <<"]", "]">>

RECURSIVE WriteSegments(_)
\* for segment in &self.0 { f.write_char('/')?; Display::fmt(segment, f)?; }
WriteSegments(segs) ==
    IF segs = <<>> THEN <<>>
    ELSE <<"/">> \o PageSegment_fmt(Head(segs)) \o WriteSegments(Tail(segs))

RECURSIVE WriteSegmentsOnly(_)
WriteSegmentsOnly(segs) ==
    IF segs = <<>> THEN <<>>
    ELSE PageSegment_fmt(Head(segs)) \o WriteSegmentsOnly(Tail(segs))

\* mutant: the separator before each segment is not written
AppPage_fmt_NoSeparator(self) ==
    IF Len(self) = 0 THEN <<"/">> ELSE WriteSegmentsOnly(self)

\* mutant: no early return for the empty container
AppPage_fmt_EmptyIsEmpty(self) == WriteSegments(self)

\* impl Display for AppPage
AppPage_fmt(self) ==
    IF Len(self) = 0 THEN <<"/">> ELSE WriteSegments(self)

RECURSIVE WritePathSegments(_)
WritePathSegments(segs) ==
    IF segs = <<>> THEN <<>>
    ELSE <<"/">> \o PathSegment_fmt(Head(segs)) \o WritePathSegments(Tail(segs))

\* impl Display for AppPath
AppPath_fmt(self) ==
    IF Len(self) = 0 THEN <<"/">> ELSE WritePathSegments(self)

-----------------------------------------------------------------------------
(* impl AppPage. *)

\* AppPage::new
AppPage_new == <<>>

IsCatchAllKind(seg) == seg.kind \in {"CatchAll", "OptionalCatchAll"}

\* mutant: refuses when any entry, not the last one, is a catch-all
AppPage_push_AnyCatchAll(self, segment) ==
    IF /\ \E i \in 1..Len(self) : IsCatchAllKind(self[i])
       /\ segment.kind # "PageType"
    THEN [err |-> "InvalidAppend", page |-> self]
    ELSE [err |-> "none", page |-> Append(self, segment)]

\* mutant: the segment is added before the check bails
AppPage_push_ThenCheck(self, segment) ==
    IF /\ Len(self) > 0
       /\ IsCatchAllKind(self[Len(self)])
       /\ segment.kind # "PageType"
    THEN [err |-> "InvalidAppend", page |-> Append(self, segment)]
    ELSE [err |-> "none", page |-> Append(self, segment)]

\* AppPage::push : the Result and the container the call leaves behind
AppPage_push(self, segment) ==
    IF /\ Len(self) > 0
       /\ IsCatchAllKind(self[Len(self)])
       /\ segment.kind # "PageType"
    THEN [err |-> "InvalidAppend", page |-> self]
    ELSE [err |-> "none", page |-> Append(self, segment)]

\* mutant: the empty string is handed to the grammar
AppPage_push_str_NoEmptyCheck(self, segment) ==
    LET r == PageSegment_parse(segment)
    IN  IF r.err # "none" THEN [err |-> r.err, page |-> self]
        ELSE AppPage_push(self, r.value)

\* AppPage::push_str
AppPage_push_str(self, segment) ==
    IF IsEmpty(segment) THEN [err |-> "none", page |-> self]
    ELSE LET r == PageSegment_parse(segment)
         IN  IF r.err # "none" THEN [err |-> r.err, page |-> self]
             ELSE AppPage_push(self, r.value)

RECURSIVE SplitFrom(_, _)
\* str::split('/') : cur is the piece being read
SplitFrom(s, cur) ==
    IF s = <<>> THEN <<cur>>
    ELSE IF Head(s) = "/" THEN <<cur>> \o SplitFrom(Tail(s), <<>>)
    ELSE SplitFrom(Tail(s), Append(cur, Head(s)))

Split(s) == SplitFrom(s, <<>>)

RECURSIVE ParseLoop(_, _)
\* for segment in page.split('/') { app_page.push_str(segment)?; }
ParseLoop(app_page, pieces) ==
    IF pieces = <<>> THEN Ok(app_page)
    ELSE LET r == AppPage_push_str(app_page, Head(pieces))
         IN  IF r.err # "none" THEN Err(r.err)
             ELSE ParseLoop(r.page, Tail(pieces))

\* AppPage::parse
AppPage_parse(s) == ParseLoop(AppPage_new, Split(s))

-----------------------------------------------------------------------------
(* impl From<AppPage> for AppPath. *)

IsRoutable(seg) ==
    seg.kind \in {"Static", "Dynamic", "CatchAll", "OptionalCatchAll"}

RECURSIVE FilterMap(_)
FilterMap(segs) ==
    IF segs = <<>> THEN <<>>
    ELSE LET segment == Head(segs)
         IN  (IF IsRoutable(segment)
              THEN <<[kind |-> segment.kind, name |-> segment.name]>>
              ELSE <<>>) \o FilterMap(Tail(segs))

RECURSIVE FilterMapKeepsGroups(_)
FilterMapKeepsGroups(segs) ==
    IF segs = <<>> THEN <<>>
    ELSE LET segment == Head(segs)
         IN  (IF IsRoutable(segment)
              THEN <<[kind |-> segment.kind, name |-> segment.name]>>
              ELSE IF segment.kind = "Group"
              THEN <<[kind |-> "Static", name |-> segment.name]>>
              ELSE <<>>) \o FilterMapKeepsGroups(Tail(segs))

\* mutant: a Group is mapped to a Static path segment, not dropped
AppPath_from_KeepsGroups(value) == FilterMapKeepsGroups(value)

RECURSIVE FilterMapKeepsPageType(_)
FilterMapKeepsPageType(segs) ==
    IF segs = <<>> THEN <<>>
    ELSE LET segment == Head(segs)
         IN  (IF IsRoutable(segment)
              THEN <<[kind |-> segment.kind, name |-> segment.name]>>
              ELSE IF segment.kind = "PageType"
              THEN <<[kind |-> "Static", name |-> PageType_fmt(segment.ptype)]>>
              ELSE <<>>) \o FilterMapKeepsPageType(Tail(segs))

\* mutant: the PageType marker is mapped to a Static path segment
AppPath_from_KeepsPageType(value) == FilterMapKeepsPageType(value)

\* impl From<AppPage> for AppPath
AppPath_from(value) == FilterMap(value)

-----------------------------------------------------------------------------
(* The container under construction: push and push_str called in any     *)
(* order on one AppPage, starting from AppPage::new().                    *)

\* segments handed to push
PushSegments ==
    { Static(<<"a">>), Dynamic(<<"a">>), CatchAll(<<"a">>),
      OptionalCatchAll(<<"a">>), Group(<<"a">>), Parallel(<<"a">>),
      PageType("Page"), PageType("Route"),
      Group(<<>>), Static(<<>>), Static(<<"[", "a", "]">>) }

\* strings handed to push_str
PushTokens ==
    { <<"a">>, <<"[", "a", "]">>, <<"[", ".", ".", ".", "a", "]">>,
      <<"[", "[", ".", ".", ".", "a", "]", "]">>, <<"(", "a", ")">>,
      <<"@", "a">>, <<"p", "a", "g", "e">>, <<"[", "a">>,
      <<>>, <<"a", "/", "a">> }

Idle == [op |-> "none", arg |-> <<>>, err |-> "none"]
NoResult == Err("pending")

Init ==
    /\ page = AppPage_new
    /\ before = AppPage_new
    /\ call = [op |-> "new", arg |-> <<>>, err |-> "none"]
    /\ token = <<>>
    /\ parsed = NoResult
    /\ path = <<>>
    /\ derived = <<>>
    /\ pc = "build"

Push(segment) ==
    LET r == AppPage_push(page, segment)
    IN  /\ Len(r.page) <= MaxLen
        /\ page' = r.page
        /\ before' = page
        /\ call' = [op |-> "push", arg |-> segment, err |-> r.err]
        /\ UNCHANGED <<token, parsed, path, derived, pc>>

PushStr(segment) ==
    LET r == AppPage_push_str(page, segment)
    IN  /\ Len(r.page) <= MaxLen
        /\ page' = r.page
        /\ before' = page
        /\ call' = [op |-> "push_str", arg |-> segment, err |-> r.err]
        /\ UNCHANGED <<token, parsed, path, derived, pc>>

Next ==
    \/ \E segment \in PushSegments : Push(segment)
    \/ \E segment \in PushTokens : PushStr(segment)

Spec == Init /\ [][Next]_vars

-----------------------------------------------------------------------------
(* The segment grammar alone: PageSegment::parse applied to a token.      *)

RECURSIVE StringsUpTo(_)
\* every string over Chars of at most n characters
StringsUpTo(n) ==
    IF n = 0 THEN {<<>>}
    ELSE LET S == StringsUpTo(n - 1)
         IN  S \cup {Append(s, c) : s \in S, c \in Chars}

\* the openings the grammar looks for, whole and cut short
TokenPrefixes ==
    { <<>>, <<"(">>, <<"@">>, <<"[">>, <<"[", ".">>, <<"[", ".", ".">>,
      <<"[", ".", ".", ".">>, <<"[", "[">>, <<"[", "[", ".">>,
      <<"[", "[", ".", ".">>, <<"[", "[", ".", ".", ".">> }

\* the closings the grammar looks for
TokenSuffixes == { <<>>, <<")">>, <<"]">>, <<"]", "]">> }

\* tokens handed to PageSegment::parse
Tokens ==
    {p \o m \o s : p \in TokenPrefixes, m \in StringsUpTo(MaxMid), s \in TokenSuffixes}
        \cup {PageType_fmt(t) : t \in PageTypes}

\* everything a specification does not use stays as Init leaves it
InitGrammar ==
    /\ token \in Tokens
    /\ parsed = NoResult
    /\ pc = "token"
    /\ page = AppPage_new
    /\ before = AppPage_new
    /\ call = Idle
    /\ path = <<>>
    /\ derived = <<>>

ParseToken ==
    /\ pc = "token"
    /\ parsed' = PageSegment_parse(token)
    /\ pc' = "parsed"
    /\ UNCHANGED <<page, before, call, token, path, derived>>

NextGrammar == ParseToken

SpecGrammar == InitGrammar /\ [][NextGrammar]_vars

(* The grammar as the specification words it: a token has the form        *)
(* pre name suf when some name makes the three, concatenated, the token.  *)

Substrings(t) == {SubSeq(t, i, j) : i \in 1..(Len(t) + 1), j \in 0..Len(t)}

HasForm(t, pre, suf) == \E name \in Substrings(t) : t = pre \o name \o suf

NameOf(t, pre, suf) == CHOOSE name \in Substrings(t) : t = pre \o name \o suf

GroupOpen    == <<"(">>
GroupClose   == <<")">>
ParallelOpen == <<"@">>
OptionalOpen == <<"[", "[", ".", ".", ".">>
OptionalClose == <<"]", "]">>
CatchAllOpen == <<"[", ".", ".", ".">>
BracketClose == <<"]">>
DynamicOpen  == <<"[">>

Grammar(t) ==
    IF t = <<>> THEN Err("EmptySegment")
    ELSE IF \E i \in DOMAIN t : t[i] = "/" THEN Err("IllegalSlash")
    ELSE IF HasForm(t, GroupOpen, GroupClose)
         THEN Ok(Group(NameOf(t, GroupOpen, GroupClose)))
    ELSE IF HasForm(t, ParallelOpen, <<>>)
         THEN Ok(Parallel(NameOf(t, ParallelOpen, <<>>)))
    ELSE IF HasForm(t, OptionalOpen, OptionalClose)
         THEN Ok(OptionalCatchAll(NameOf(t, OptionalOpen, OptionalClose)))
    ELSE IF HasForm(t, CatchAllOpen, BracketClose)
         THEN Ok(CatchAll(NameOf(t, CatchAllOpen, BracketClose)))
    ELSE IF HasForm(t, DynamicOpen, BracketClose)
         THEN Ok(Dynamic(NameOf(t, DynamicOpen, BracketClose)))
    ELSE Ok(Static(t))

\* C2: every non-empty token without a separator parses, and rendering the
\* parsed segment gives the token back, unmatched and nested brackets included.
C2_RoundTrip ==
    (pc = "parsed" /\ ~IsEmpty(token) /\ ~Contains(token, "/"))
        => /\ parsed.err = "none"
           /\ PageSegment_fmt(parsed.value) = token

\* "[[...a]" : an optional catch-all cut short parses to Dynamic("[...a")
C2_Witness ==
    /\ pc = "parsed"
    /\ token = <<"[", "[", ".", ".", ".", "a", "]">>
    /\ parsed = Ok(Dynamic(<<"[", ".", ".", ".", "a">>))
    /\ PageSegment_fmt(parsed.value) = token

\* C5: PageSegment::parse returns what the grammar of the specification
\* gives for the token (errors first, then the first matching form in the
\* fixed precedence), and it never returns a PageType segment.
C5_ParseIsGrammar ==
    pc = "parsed"
        => /\ parsed = Grammar(token)
           /\ parsed.err \in {"none", "EmptySegment", "IllegalSlash"}
           /\ parsed.err = "none" => parsed.value.kind # "PageType"
           /\ token \in {PageType_fmt(t) : t \in PageTypes} => parsed = Ok(Static(token))

\* "[[...a]]" has the dynamic form too; the optional catch-all form wins
C5_Witness ==
    /\ pc = "parsed"
    /\ token = <<"[", "[", ".", ".", ".", "a", "]", "]">>
    /\ HasForm(token, DynamicOpen, BracketClose)
    /\ parsed = Ok(OptionalCatchAll(<<"a">>))

-----------------------------------------------------------------------------
(* Claims about the container under construction (Spec).                  *)

\* C1: in every container built by push / push_str, every entry after a
\* CatchAll or OptionalCatchAll entry is a PageType marker.
C1_CatchAllThenOnlyPageType ==
    \A i \in 1..Len(page) : \A j \in (i + 1)..Len(page) :
        IsCatchAllKind(page[i]) => page[j].kind = "PageType"

\* the check that push makes
LastIsCatchAll(self) == Len(self) > 0 /\ IsCatchAllKind(self[Len(self)])

\* C3: push fails with InvalidAppend exactly when the last entry is a
\* catch-all and the segment is not a PageType; otherwise it succeeds and
\* the container is the old one with the segment added at the end.
C3_PushContract ==
    call.op = "push"
        => LET refused == LastIsCatchAll(before) /\ call.arg.kind # "PageType"
           IN  /\ call.err \in {"none", "InvalidAppend"}
               /\ call.err = "InvalidAppend" <=> refused
               /\ ~refused =>
                    /\ Len(page) = Len(before) + 1
                    /\ page[Len(page)] = call.arg
                    /\ \A i \in 1..Len(before) : page[i] = before[i]

\* push(Static("a")) refused after CatchAll("a")
C3_Witness ==
    /\ call = [op |-> "push", arg |-> Static(<<"a">>), err |-> "InvalidAppend"]
    /\ before = <<CatchAll(<<"a">>)>>

\* C4: a failing push or push_str leaves the container as it was.
C4_FailureLeavesContainer ==
    (call.op \in {"push", "push_str"} /\ call.err # "none")
        => /\ page = before
           /\ call.err \in {"InvalidAppend", "EmptySegment", "IllegalSlash"}

\* push_str("a/a") fails on a container that holds entries
C4_Witness ==
    /\ call = [op |-> "push_str", arg |-> <<"a", "/", "a">>, err |-> "IllegalSlash"]
    /\ Len(before) = 2

\* parse_path(render(C)) == C
Reparses(self) ==
    LET r == AppPage_parse(AppPage_fmt(self))
    IN  r.err = "none" /\ r.value = self

\* C8 as stated: every container built by push / push_str is what
\* AppPage::parse gives back from its rendering.
C8_RenderIsLossless == Reparses(page)

\* an entry the grammar parses from its own rendering
IsGrammarEntry(seg) == PageSegment_parse(PageSegment_fmt(seg)) = Ok(seg)

\* C8 amended: a container built by push / push_str whose entries are all
\* what the grammar parses from their own rendering (every entry added by
\* push_str is) is what AppPage::parse gives back from its rendering.
C8_GrammarEntriesReparse ==
    (\A i \in 1..Len(page) : IsGrammarEntry(page[i])) => Reparses(page)

\* "/(a)/a/[...a]" built by three calls of push_str
C8_Witness ==
    /\ call.op = "push_str"
    /\ call.err = "none"
    /\ page = <<Group(<<"a">>), Static(<<"a">>), CatchAll(<<"a">>)>>
    /\ AppPage_fmt(page) =
         <<"/", "(", "a", ")", "/", "a", "/", "[", ".", ".", ".", "a", "]">>
    /\ Reparses(page)

-----------------------------------------------------------------------------
(* AppPath::from applied to any Vec<PageSegment> (the field is public).   *)

Segments ==
    PushSegments \cup {PageSegment_parse(t).value : t \in PushTokens \ {<<>>, <<"a", "/", "a">>}}

Containers == UNION {[1..n -> Segments] : n \in 0..MaxLen}

InitDerive ==
    /\ page \in Containers
    /\ before = page
    /\ call = Idle
    /\ token = <<>>
    /\ parsed = NoResult
    /\ path = <<>>
    /\ derived = <<>>
    /\ pc = "page"

\* AppPath::from(page)
Derive ==
    /\ pc \in {"page", "parsed", "marked"}
    /\ derived' = AppPath_from(page)
    /\ pc' = "derived"
    /\ UNCHANGED <<page, before, call, token, parsed, path>>

NextDerive == Derive

SpecDerive == InitDerive /\ [][NextDerive]_vars

RoutableKinds == {"Static", "Dynamic", "CatchAll", "OptionalCatchAll"}

\* C6: the derived path holds exactly the Static, Dynamic, CatchAll and
\* OptionalCatchAll entries of the page, same kind and name, same order,
\* and nothing of its Group, Parallel and PageType entries.
C6_DeriveIsFilterMap ==
    pc = "derived"
        => LET kept == {i \in 1..Len(page) : page[i].kind \in RoutableKinds}
               rank(i) == Cardinality({j \in kept : j <= i})
           IN  /\ Len(derived) = Cardinality(kept)
               /\ \A i \in kept :
                    /\ derived[rank(i)].kind = page[i].kind
                    /\ derived[rank(i)].name = page[i].name
               /\ \A k \in 1..Len(derived) : DOMAIN derived[k] = {"kind", "name"}

C6_Witness ==
    /\ pc = "derived"
    /\ page = <<Group(<<"a">>), Dynamic(<<"a">>), PageType("Page")>>
    /\ derived = <<[kind |-> "Dynamic", name |-> <<"a">>]>>

-----------------------------------------------------------------------------
(* The pipeline of the route discovery: AppPage::parse on a path string,  *)
(* then push of a PageType marker, then AppPath::from.                    *)

\* the substrings a path is put together from; the empty one gives a
\* leading, a trailing or a doubled separator
PathPieces ==
    { <<>>, <<"a">>, <<"(", "g", "r", "o", "u", "p", ")">>, <<"@", "a">>,
      <<"[", "i", "d", "]">>, <<"[", ".", ".", ".", "a", "]">>,
      <<"[", "[", ".", ".", ".", "a", "]", "]">>,
      <<"p", "a", "g", "e">>, <<"r", "o", "u", "t", "e">> }

RECURSIVE Join(_)
\* the pieces with a separator between each two
Join(pieces) ==
    IF Len(pieces) = 1 THEN Head(pieces)
    ELSE Head(pieces) \o <<"/">> \o Join(Tail(pieces))

\* paths handed to AppPage::parse, with and without a leading separator
Paths ==
    {lead \o Join(ps) : lead \in {<<>>, <<"/">>},
                        ps \in UNION {[1..n -> PathPieces] : n \in 1..MaxPieces}}

InitPath ==
    /\ path \in Paths
    /\ page = AppPage_new
    /\ before = AppPage_new
    /\ call = Idle
    /\ token = <<>>
    /\ parsed = NoResult
    /\ derived = <<>>
    /\ pc = "path"

\* AppPage::parse(path)
ParsePath ==
    /\ pc = "path"
    /\ LET r == AppPage_parse(path)
       IN  /\ page' = r.value
           /\ call' = [op |-> "parse", arg |-> path, err |-> r.err]
           /\ pc' = IF r.err = "none" THEN "parsed" ELSE "failed"
    /\ before' = page
    /\ UNCHANGED <<token, parsed, path, derived>>

\* page.push(PageSegment::PageType(t)) on the parsed container
MarkPageType(t) ==
    /\ pc = "parsed"
    /\ LET r == AppPage_push(page, PageType(t))
       IN  /\ page' = r.page
           /\ call' = [op |-> "push", arg |-> PageType(t), err |-> r.err]
           /\ pc' = IF r.err = "none" THEN "marked" ELSE "failed"
    /\ before' = page
    /\ UNCHANGED <<token, parsed, path, derived>>

NextPath ==
    \/ ParsePath
    \/ \E t \in PageTypes : MarkPageType(t)
    \/ Derive

SpecPath == InitPath /\ [][NextPath]_vars

(* The path string as the claims word it. *)

\* where the token that starts at i ends
TokenEnd(p, i) ==
    CHOOSE j \in i..Len(p) :
        /\ \A k \in i..j : p[k] # "/"
        /\ j = Len(p) \/ p[j + 1] = "/"

RECURSIVE TokensFrom(_, _)
\* the non-empty tokens of p from position i on, in order
TokensFrom(p, i) ==
    IF i > Len(p) THEN <<>>
    ELSE IF p[i] = "/" THEN TokensFrom(p, i + 1)
    ELSE <<SubSeq(p, i, TokenEnd(p, i))>> \o TokensFrom(p, TokenEnd(p, i) + 1)

NonEmptyTokens(p) == TokensFrom(p, 1)

RECURSIVE Squeeze(_)
\* p without the separators that precede a separator or end the string
Squeeze(p) ==
    IF p = <<>> THEN <<>>
    ELSE IF Head(p) = "/" /\ (Len(p) = 1 \/ p[2] = "/") THEN Squeeze(Tail(p))
    ELSE <<Head(p)>> \o Squeeze(Tail(p))

\* p with its empty substrings removed and a single leading separator
Normalized(p) ==
    LET q == Squeeze(p)
    IN  IF q = <<>> \/ Head(q) # "/" THEN <<"/">> \o q ELSE q

IsCanonicalPath(p) ==
    /\ Len(p) > 1
    /\ p[1] = "/"
    /\ p[Len(p)] # "/"
    /\ \A i \in 1..(Len(p) - 1) : ~(p[i] = "/" /\ p[i + 1] = "/")

\* C9: where AppPage::parse succeeds, rendering its result gives the path
\* with empty substrings removed and one leading separator: the path itself
\* if it is canonical, "/" if it has no non-empty token.
C9_RenderOfParse ==
    (call.op = "parse" /\ call.err = "none")
        => /\ AppPage_fmt(page) = Normalized(path)
           /\ IsCanonicalPath(path) => AppPage_fmt(page) = path
           /\ NonEmptyTokens(path) = <<>> =>
                (page = <<>> /\ AppPage_fmt(page) = <<"/">>)

\* "//a/" : doubled leading and trailing separators render as "/a"
C9_Witness ==
    /\ call.op = "parse"
    /\ call.err = "none"
    /\ path = <<"/", "/", "a", "/">>
    /\ AppPage_fmt(page) = <<"/", "a">>

IsCatchAllForm(t) ==
    \/ HasForm(t, CatchAllOpen, BracketClose)
    \/ HasForm(t, OptionalOpen, OptionalClose)

\* C10: AppPage::parse fails only with InvalidAppend, exactly when a token of
\* catch-all or optional catch-all form has a non-empty token after it;
\* otherwise the result holds one entry per non-empty token, in order.
C10_ParseFailsOnlyAfterCatchAll ==
    call.op = "parse"
        => LET toks == NonEmptyTokens(path)
               blocked == \E i \in 1..Len(toks) : i < Len(toks) /\ IsCatchAllForm(toks[i])
           IN  /\ call.err \in {"none", "InvalidAppend"}
               /\ call.err = "InvalidAppend" <=> blocked
               /\ call.err = "none" =>
                    /\ Len(page) = Len(toks)
                    /\ \A k \in 1..Len(toks) : page[k] = Grammar(toks[k]).value

\* "/[...a]//page" : the empty substring is passed over, "page" is refused
C10_Witness ==
    /\ call = [op |-> "parse", err |-> "InvalidAppend",
               arg |-> <<"/", "[", ".", ".", ".", "a", "]", "/", "/", "p", "a", "g", "e">>]
    /\ pc = "failed"

\* the path put together again from tokens
Rendered(toks) ==
    IF toks = <<>> THEN <<"/">>
    ELSE <<"/">> \o Join(toks)

IsModifierToken(t) ==
    HasForm(t, GroupOpen, GroupClose) \/ HasForm(t, ParallelOpen, <<>>)

RECURSIVE WithoutModifiers(_)
WithoutModifiers(toks) ==
    IF toks = <<>> THEN <<>>
    ELSE (IF IsModifierToken(Head(toks)) THEN <<>> ELSE <<Head(toks)>>)
            \o WithoutModifiers(Tail(toks))

\* parse succeeded on a path that ends in "page" / "route", the matching
\* PageType was pushed, and the path was derived
MarkedAndDerived ==
    /\ pc = "derived"
    /\ call.op = "push"
    /\ call.err = "none"
    /\ NonEmptyTokens(path) # <<>>
    /\ NonEmptyTokens(path)[Len(NonEmptyTokens(path))] = PageType_fmt(call.arg.ptype)

\* C7 as stated: the derived path renders as the input path without its
\* group tokens, its parallel tokens and its final page / route token.
C7_DerivedDropsFinalToken ==
    MarkedAndDerived
        => LET toks == NonEmptyTokens(path)
           IN  AppPath_fmt(derived) =
                   Rendered(WithoutModifiers(SubSeq(toks, 1, Len(toks) - 1)))

\* C7 amended: the derived path renders as the input path without its group
\* tokens and its parallel tokens; the final page / route token, parsed to a
\* Static entry, stays, and only the pushed PageType marker is dropped.
C7_DerivedKeepsFinalToken ==
    MarkedAndDerived
        => AppPath_fmt(derived) = Rendered(WithoutModifiers(NonEmptyTokens(path)))

\* "/(group)/[id]/page" derives a path that renders as "/[id]/page"
C7_Witness ==
    /\ MarkedAndDerived
    /\ path = <<"/", "(", "g", "r", "o", "u", "p", ")", "/", "[", "i", "d", "]",
                "/", "p", "a", "g", "e">>
    /\ page = <<Group(<<"g", "r", "o", "u", "p">>), Dynamic(<<"i", "d">>),
                Static(<<"p", "a", "g", "e">>), PageType("Page")>>
    /\ AppPath_fmt(derived) = <<"/", "[", "i", "d", "]", "/", "p", "a", "g", "e">>

=============================================================================
